---- MODULE Spec2Model ----
(***************************************************************************)
(* A model of the medical-records pipeline:                                *)
(*   ExtractData.py  Codes (the CPT prompt loop), Query (SQL construction) *)
(*   CleanseData.py  Cleanse (feature_engineer, make_new_ids,              *)
(*                   merge_duplicates)                                     *)
(*   AnalyzeData.py  Analyze (get_mistakes)                                *)
(* Each component has its own variables and its own specification; the     *)
(* variables of the components a specification does not exercise stay at   *)
(* their idle values.                                                      *)
(***************************************************************************)
EXTENDS Integers, Sequences, FiniteSets, TLC

VARIABLES
    \* Cleanse.wrangle / Analyze
    pc,          \* position in wrangle + Analyze: "cleaned", "ids_made", "merged", "AssertionError", "analyzed"
    data_full,   \* the natural-key table returned by clean_data (wrangle's data_full copy)
    data,        \* the surrogate-keyed table
    ids,         \* the id-map table
    mistakes,    \* Analyze.mistakes (the report), a sequence of rows
    \* Cleanse.feature_engineer
    df,          \* one row of the merged frame: [D, P, procedure] and, once engineered, the flags
    fe_pc,       \* "raw" or "engineered"
    \* Query
    D_codes, P_codes, CPT_codes,
    query, CPT_query, visits, services,
    q_err,       \* the exception the last Query call raised ("none" when it returned)
    q_executed,  \* number of queries executed against the record store
    q_op,        \* the Query method called last ("init" after construction)
    q_ret,       \* what the last get_query / get_CPT_query call returned
    \* Codes.generate_CPT_codes
    code_list,   \* the local code_list of the prompt loop
    c_pc,        \* "prompt", "returned", "ValueError"
    c_printed,   \* what the last loop iteration printed: a sequence of "INVALID", "ALREADY"
    c_entries,   \* number of entries read so far
    c_code       \* the entry read last

cleanseVars == <<pc, data_full, data, ids, mistakes>>
featVars    == <<df, fe_pc>>
queryVars   == <<D_codes, P_codes, CPT_codes, query, CPT_query, visits, services, q_err, q_executed, q_op, q_ret>>
codesVars   == <<code_list, c_pc, c_printed, c_entries, c_code>>
vars        == <<cleanseVars, featVars, queryVars, codesVars>>

\* Python's None where the other values are sequences: the empty sequence
\* (a query string and a report row list are told apart from it by the
\* position variables)
None == <<>>

\* prev_key = None in merge_duplicates: a value no surrogate key equals
NoKey == -1

(***************************************************************************)
(* Generic helpers                                                         *)
(***************************************************************************)
Range(s) == {s[i] : i \in DOMAIN s}

\* All sequences over S of length 0..n
SeqsUpTo(S, n) == UNION {[1..k -> S] : k \in 0..n}

\* bitwise OR of two 0/1 flags (Python's | on ints restricted to 0/1)
BitOr(a, b) == IF a = 1 \/ b = 1 THEN 1 ELSE 0

(***************************************************************************)
(* Cleanse.make_new_ids                                                    *)
(***************************************************************************)
\* id_cols of make_new_ids, each with the name of its new_ column
id_cols == <<"encounter_key", "patient_id", "doctor_id", "hospital_id">>
new_id_cols == <<"new_encounter_key", "new_patient_id", "new_doctor_id", "new_hospital_id">>

\* The inner loop of make_new_ids over one column: vals is data[col];
\* index, seen and new_col are the loop's locals.
RECURSIVE new_id_loop(_, _, _, _, _)
new_id_loop(vals, i, index, seen, new_col) ==
    IF i > Len(vals) THEN new_col
    ELSE LET val == vals[i] IN
         IF val \in DOMAIN seen
         THEN new_id_loop(vals, i + 1, index, seen, Append(new_col, seen[val]))
         ELSE new_id_loop(vals, i + 1, index + 1,
                          [k \in DOMAIN seen \cup {val} |-> IF k = val THEN index ELSE seen[k]],
                          Append(new_col, index))

\* a make_new_ids that never consults seen: every row gets a fresh integer
new_id_column_fresh(vals) == [i \in 1..Len(vals) |-> i - 1]

new_id_column(vals) == new_id_loop(vals, 1, 0, <<>>, <<>>)

Column(tbl, col) == [i \in 1..Len(tbl) |-> tbl[i][col]]

\* make_new_ids: returns the pair (data, ids)
make_new_ids(tbl) ==
    LET ne == new_id_column(Column(tbl, "encounter_key"))
        np == new_id_column(Column(tbl, "patient_id"))
        nd == new_id_column(Column(tbl, "doctor_id"))
        nh == new_id_column(Column(tbl, "hospital_id"))
    IN [data |-> [i \in 1..Len(tbl) |->
                    [benign |-> tbl[i].benign, malignant |-> tbl[i].malignant,
                     colonoscopy |-> tbl[i].colonoscopy, colectomy |-> tbl[i].colectomy,
                     total_claim |-> tbl[i].total_claim,
                     new_encounter_key |-> ne[i], new_patient_id |-> np[i],
                     new_doctor_id |-> nd[i], new_hospital_id |-> nh[i]]],
        ids  |-> [i \in 1..Len(tbl) |->
                    [new_encounter_key |-> ne[i], new_patient_id |-> np[i],
                     new_doctor_id |-> nd[i], new_hospital_id |-> nh[i],
                     encounter_key |-> tbl[i].encounter_key, patient_id |-> tbl[i].patient_id,
                     doctor_id |-> tbl[i].doctor_id, hospital_id |-> tbl[i].hospital_id]]]

(***************************************************************************)
(* Cleanse.merge_duplicates                                                *)
(***************************************************************************)
\* DataFrame.duplicated(subset='new_encounter_key', keep=False) at row i
duplicated(tbl, i) ==
    \E j \in 1..Len(tbl) : j # i /\ tbl[j].new_encounter_key = tbl[i].new_encounter_key

\* The for loop of merge_duplicates: row runs over the table's positions, the
\* rows that are not duplicated are skipped (they are not in the filtered
\* index); prev_row and prev_key are the loop's locals (0 / None before the
\* first duplicated row).
RECURSIVE merge_loop(_, _, _, _)
merge_loop(tbl, row, prev_row, prev_key) ==
    IF row > Len(tbl) THEN tbl
    ELSE IF ~duplicated(tbl, row) THEN merge_loop(tbl, row + 1, prev_row, prev_key)
    ELSE LET key == tbl[row].new_encounter_key
             merged == IF key = prev_key
                       THEN [tbl EXCEPT ![row] =
                               [@ EXCEPT !.benign      = BitOr(tbl[prev_row].benign, @),
                                         !.malignant   = BitOr(tbl[prev_row].malignant, @),
                                         !.colonoscopy = BitOr(tbl[prev_row].colonoscopy, @),
                                         !.colectomy   = BitOr(tbl[prev_row].colectomy, @)]]
                       ELSE tbl
         IN merge_loop(merged, row + 1, row, key)

\* drop_duplicates(keep=False): every row of a duplicated encounter is dropped
drop_duplicates_none(tbl, i) ==
    SelectSeq(tbl, LAMBDA r :
        Cardinality({j \in 1..Len(tbl) : tbl[j].new_encounter_key = r.new_encounter_key}) = 1)

\* DataFrame.drop_duplicates(subset='new_encounter_key', keep='last')
RECURSIVE drop_duplicates_last(_, _)
drop_duplicates_last(tbl, i) ==
    IF i > Len(tbl) THEN <<>>
    ELSE IF \E j \in (i + 1)..Len(tbl) : tbl[j].new_encounter_key = tbl[i].new_encounter_key
         THEN drop_duplicates_last(tbl, i + 1)
         ELSE <<tbl[i]>> \o drop_duplicates_last(tbl, i + 1)

\* Series.nunique() of the new_encounter_key column
nunique(tbl) == Cardinality({tbl[i].new_encounter_key : i \in 1..Len(tbl)})

\* DataFrame.drop_duplicates(subset='new_encounter_key') with the default keep='first'
RECURSIVE drop_duplicates_first(_, _)
drop_duplicates_first(tbl, i) ==
    IF i > Len(tbl) THEN <<>>
    ELSE IF \E j \in 1..(i - 1) : tbl[j].new_encounter_key = tbl[i].new_encounter_key
         THEN drop_duplicates_first(tbl, i + 1)
         ELSE <<tbl[i]>> \o drop_duplicates_first(tbl, i + 1)

\* a merge_duplicates whose ids.drop_duplicates call leaves keep at its default
merge_duplicates_ids_first(d, m) ==
    LET d2 == drop_duplicates_last(merge_loop(d, 1, 0, NoKey), 1)
        m2 == drop_duplicates_first(m, 1)
    IN [data |-> d2, ids |-> m2,
        asserts |-> (Len(d2) = nunique(d2) /\ Len(m2) = nunique(m2))]

\* merge_duplicates: returns (data, ids) and whether both assertions passed
merge_duplicates(d, m) ==
    LET d2 == drop_duplicates_last(merge_loop(d, 1, 0, NoKey), 1)
        m2 == drop_duplicates_last(m, 1)
    IN [data |-> d2, ids |-> m2,
        asserts |-> (Len(d2) = nunique(d2) /\ Len(m2) = nunique(m2))]

(***************************************************************************)
(* Analyze.get_mistakes                                                    *)
(***************************************************************************)
\* Series.unique(): the distinct values in order of first appearance
RECURSIVE unique(_)
unique(s) ==
    IF s = <<>> THEN <<>>
    ELSE LET rest == unique(SubSeq(s, 1, Len(s) - 1))
             last == s[Len(s)]
         IN IF last \in Range(rest) THEN rest ELSE Append(rest, last)

\* a filter that forgets the malignant == 0 condition
benign_any(tbl) == SelectSeq(tbl, LAMBDA r : r.benign = 1)

\* self.data.loc[(benign == 1) & (malignant == 0)]
benign_only(tbl) == SelectSeq(tbl, LAMBDA r : r.benign = 1 /\ r.malignant = 0)

\* the per-doctor loop: one result tuple per doctor of doc_ids.  The rate
\* len(mistakes)/len(chances)*100 is a float; it is kept as the exact
\* fraction pct_num/pct_den (for these small counts, float comparison of two
\* such rates agrees with comparison of the fractions).
doctor_results(bd) ==
    LET doc_ids == unique(Column(bd, "new_doctor_id"))
    IN [k \in 1..Len(doc_ids) |->
          LET chances == SelectSeq(bd, LAMBDA r : r.new_doctor_id = doc_ids[k])
              mist    == SelectSeq(chances, LAMBDA r : r.colectomy = 1)
          IN [new_doctor_id |-> doc_ids[k], chances |-> Len(chances),
              mistakes |-> Len(mist),
              pct_num |-> Len(mist) * 100, pct_den |-> Len(chances)]]

\* self.ids[['new_doctor_id', 'doctor_id']].drop_duplicates()  (keep='first')
doctor_pairs(m) ==
    unique([i \in 1..Len(m) |-> [new_doctor_id |-> m[i].new_doctor_id, doctor_id |-> m[i].doctor_id]])

\* pd.merge(temp, pairs, on='new_doctor_id'): inner join, left order kept
RECURSIVE merge_on_doctor(_, _)
merge_on_doctor(temp, pairs) ==
    IF temp = <<>> THEN <<>>
    ELSE LET t == Head(temp)
             hits == SelectSeq(pairs, LAMBDA p : p.new_doctor_id = t.new_doctor_id)
         IN [j \in 1..Len(hits) |->
               [new_doctor_id |-> t.new_doctor_id, chances |-> t.chances,
                mistakes |-> t.mistakes, pct_num |-> t.pct_num, pct_den |-> t.pct_den,
                doctor_id |-> hits[j].doctor_id]]
            \o merge_on_doctor(Tail(temp), pairs)

\* a sort with ascending=[True, True]
sorts_before_asc(a, b) ==
    \/ a.pct_num * b.pct_den < b.pct_num * a.pct_den
    \/ /\ a.pct_num * b.pct_den = b.pct_num * a.pct_den
       /\ a.chances < b.chances

\* the sort key of sort_values(by=['% mistakes', 'chances'], ascending=[True, False]):
\* a comes strictly before b
sorts_before(a, b) ==
    \/ a.pct_num * b.pct_den < b.pct_num * a.pct_den
    \/ /\ a.pct_num * b.pct_den = b.pct_num * a.pct_den
       /\ a.chances > b.chances

\* stable insertion of row r into the sorted sequence s
RECURSIVE insert_sorted(_, _)
insert_sorted(s, r) ==
    IF s = <<>> THEN <<r>>
    ELSE IF sorts_before(r, s[Len(s)])
         THEN Append(insert_sorted(SubSeq(s, 1, Len(s) - 1), r), s[Len(s)])
         ELSE Append(s, r)

\* DataFrame.sort_values (a stable lexicographic sort)
RECURSIVE sort_values(_)
sort_values(s) ==
    IF s = <<>> THEN <<>>
    ELSE insert_sorted(sort_values(SubSeq(s, 1, Len(s) - 1)), s[Len(s)])

get_mistakes(d, m) ==
    sort_values(merge_on_doctor(doctor_results(benign_only(d)), doctor_pairs(m)))

(***************************************************************************)
(* Inputs of the Cleanse / Analyze specifications                          *)
(***************************************************************************)
MaxRowsMerge == 4
MaxRowsIds == 3
MaxRowsAnalyze == 3

Flags(b, m, c, x) == [benign |-> b, malignant |-> m, colonoscopy |-> c, colectomy |-> x]

NaturalRow(e, p, d, h, f, t) ==
    [encounter_key |-> e, patient_id |-> p, doctor_id |-> d, hospital_id |-> h,
     benign |-> f.benign, malignant |-> f.malignant, colonoscopy |-> f.colonoscopy,
     colectomy |-> f.colectomy, total_claim |-> t]

\* rows for merge_duplicates: two encounters, flags that combine under OR,
\* two different non-flag payloads
MergeRows ==
    {NaturalRow(e, pl[1], pl[2], pl[3], f, pl[4]) :
        e \in {"E1", "E2"},
        f \in {Flags(1,0,0,0), Flags(0,0,1,0), Flags(0,1,0,1)},
        pl \in {<<"p1", "d1", "h1", 100>>, <<"p2", "d2", "h2", 250>>}}

\* rows for make_new_ids: the four id columns vary independently
IdRows ==
    {NaturalRow(e, k[1], k[2], k[3], Flags(1,0,0,0), 100) :
        e \in {"E1", "E2", "E3"},
        k \in {<<"p1", "d1", "h1">>, <<"p2", "d1", "h2">>, <<"p1", "d2", "h2">>, <<"p2", "d2", "h1">>}}

\* rows for get_mistakes: three encounters, three doctors, benign-only with
\* and without colectomy, and a malignant finding
AnalyzeRows ==
    {NaturalRow(e, "p1", k[1], "h1", k[2], 100) :
        e \in {"E1", "E2", "E3"},
        k \in {<<"d1", Flags(1,0,0,0)>>, <<"d1", Flags(1,0,0,1)>>, <<"d1", Flags(0,1,0,0)>>,
               <<"d2", Flags(1,0,0,0)>>, <<"d2", Flags(1,0,0,1)>>, <<"d3", Flags(1,0,0,1)>>}}

\* self.visits = None / self.services = None
NotLoaded == [loaded |-> FALSE, rows |-> <<>>]

IdleFeat == df = None /\ fe_pc = "idle"
IdleQuery ==
    /\ D_codes = <<>> /\ P_codes = <<>> /\ CPT_codes = <<>>
    /\ query = None /\ CPT_query = None /\ visits = NotLoaded /\ services = NotLoaded
    /\ q_err = "none" /\ q_executed = 0 /\ q_op = "idle" /\ q_ret = None
IdleCodes == code_list = <<>> /\ c_pc = "idle" /\ c_printed = <<>> /\ c_entries = 0 /\ c_code = <<>>
IdleCleanse == pc = "idle" /\ data_full = <<>> /\ data = <<>> /\ ids = <<>> /\ mistakes = None

\* the state when clean_data has returned and wrangle has copied data_full
InitCleanse(Rows, n) ==
    /\ data_full \in SeqsUpTo(Rows, n)
    /\ pc = "cleaned"
    /\ data = data_full
    /\ ids = <<>>
    /\ mistakes = None
    /\ IdleFeat /\ IdleQuery /\ IdleCodes

\* wrangle: data, ids = self.make_new_ids(data)
MakeNewIds ==
    /\ pc = "cleaned"
    /\ LET r == make_new_ids(data) IN data' = r.data /\ ids' = r.ids
    /\ pc' = "ids_made"
    /\ UNCHANGED <<data_full, mistakes, featVars, queryVars, codesVars>>

\* wrangle: data, ids = self.merge_duplicates(data, ids)
MergeDuplicates ==
    /\ pc = "ids_made"
    /\ LET r == merge_duplicates(data, ids)
       IN /\ data' = r.data
          /\ ids' = r.ids
          /\ pc' = IF r.asserts THEN "merged" ELSE "AssertionError"
    /\ UNCHANGED <<data_full, mistakes, featVars, queryVars, codesVars>>

\* Analyze(data, ids).get_mistakes()
GetMistakes ==
    /\ pc = "merged"
    /\ mistakes' = get_mistakes(data, ids)
    /\ pc' = "analyzed"
    /\ UNCHANGED <<data_full, data, ids, featVars, queryVars, codesVars>>

NextCleanse == MakeNewIds \/ MergeDuplicates \/ GetMistakes

SpecMerge   == InitCleanse(MergeRows, MaxRowsMerge) /\ [][NextCleanse]_vars
SpecIds     == InitCleanse(IdRows, MaxRowsIds) /\ [][NextCleanse]_vars
SpecAnalyze == InitCleanse(AnalyzeRows, MaxRowsAnalyze) /\ [][NextCleanse]_vars

(***************************************************************************)
(* Cleanse.feature_engineer                                                *)
(* A code slot holds a float parsed from a decimal string with at most two *)
(* decimals; it is modelled by the integer c of hundredths (45.23 is 4523) *)
(* and stands for the double nearest to c/100.  NaN is the missing value.  *)
(***************************************************************************)
NaN == -1

\* Cleanse.__init__: D_list = ['DA', 'D1', ..., 'D25'], P_list = ['P1', ..., 'P15']
NumD == 26
NumP == 15
D_list == 1..NumD
P_list == 1..NumP

\* df[col].isin([211.3, 211.4])
is_benign_code(c) == c \in {21130, 21140}

\* df[col]//1 == 152  (NaN//1 is NaN)
is_malignant_code(c) == c # NaN /\ c \div 100 = 152

\* floor division by exactly ten hundredths, as if 0.1 were one tenth
floor_div_tenth_exact(c) == c \div 10

\* df[col]//0.1 in IEEE double arithmetic, for 32 <= c/100 < 64.
\* x is the double nearest c/100: x = c/100 + s/25 ulp with ulp = 2^-47 and
\* s = -(7c mod 25) or 25 - (7c mod 25), whichever is in -12..12 (2^45 = 7
\* mod 25).  The divisor is the double 0.1 = 1/10 + 0.4 * 2^-56.  The float
\* floor division returns floor(x / 0.1) of these two exact values:
\* for c not a multiple of 10 that is c div 10; for c = 10k it is k only when
\* x >= k * 0.1, that is 512 * s >= c, and k - 1 otherwise.
floor_div_tenth(c) ==
    LET r == (7 * c) % 25
        s == IF r <= 12 THEN 0 - r ELSE 25 - r
    IN IF c % 10 # 0 THEN c \div 10
       ELSE IF 512 * s >= c THEN c \div 10 ELSE (c \div 10) - 1

\* ((df[col]//0.1)/10).isin([45.8, 45.7]): k/10 is the double 45.8 or 45.7
\* exactly when k is 458 or 457
is_colectomy_code(c) == c # NaN /\ floor_div_tenth(c) \in {458, 457}

\* colon_codes of feature_engineer
colon_codes == {45378, 44146} \cup (44150..44160) \cup (44204..44208) \cup (44210..44212)

\* colectomy_codes of feature_engineer
colectomy_codes == {44110, 44146} \cup (44150..44160) \cup (44204..44208) \cup (44210..44211)

\* feature_engineer on one row: the four flags it sets
feature_engineer(row) ==
    [benign      |-> IF \E col \in D_list : is_benign_code(row.D[col]) THEN 1 ELSE 0,
     colonoscopy |-> IF \/ \E col \in P_list : row.P[col] = 4523
                        \/ row.procedure \in colon_codes
                     THEN 1 ELSE 0,
     malignant   |-> IF \E col \in D_list : is_malignant_code(row.D[col]) THEN 1 ELSE 0,
     colectomy   |-> IF \/ \E col \in P_list : is_colectomy_code(row.P[col])
                        \/ row.procedure \in colectomy_codes
                     THEN 1 ELSE 0]

\* slot values around 45.7 and 45.8, the colonoscopy code 45.23 and NaN
PSpan == 20
PVals == {c \in 3200..6399 : c >= 4580 - PSpan /\ c <= 4580 + PSpan} \cup {4523, NaN}

\* CPT codes around the two default code sets, and NaN
ProcVals == (44109..44213) \cup (45377..45389) \cup {NaN}

\* diagnosis slots: none, a benign code in the first slot, a 152.x code in the last
DRows == {[col \in D_list |-> NaN],
          [col \in D_list |-> IF col = 1 THEN 21130 ELSE NaN],
          [col \in D_list |-> IF col = NumD THEN 15290 ELSE NaN]}

\* the merged, float-converted frame before feature_engineer: one row with one
\* procedure-classification slot filled (or none) and a CPT code (or none)
InitFeature ==
    /\ \E pcol \in P_list, pval \in PVals, proc \in ProcVals, drow \in DRows :
         df = [D |-> drow,
               P |-> [col \in P_list |-> IF col = pcol THEN pval ELSE NaN],
               procedure |-> proc,
               benign |-> 0, colonoscopy |-> 0, malignant |-> 0, colectomy |-> 0]
    /\ fe_pc = "raw"
    /\ IdleCleanse /\ IdleQuery /\ IdleCodes

\* wrangle: df = self.feature_engineer(df)
FeatureEngineer ==
    /\ fe_pc = "raw"
    /\ LET f == feature_engineer(df)
       IN df' = [df EXCEPT !.benign = f.benign, !.colonoscopy = f.colonoscopy,
                           !.malignant = f.malignant, !.colectomy = f.colectomy]
    /\ fe_pc' = "engineered"
    /\ UNCHANGED <<cleanseVars, queryVars, codesVars>>

NextFeature == FeatureEngineer

SpecFeature == InitFeature /\ [][NextFeature]_vars

(***************************************************************************)
(* Query (ExtractData.py)                                                  *)
(* A string is a sequence of one-character strings.  A SQL query is the    *)
(* sequence of the conditions the code concatenates: the first follows     *)
(* WHERE, each later one follows OR.  A condition is                       *)
(*   "<text>" IN (cols)      [kw, op |-> "IN",   text, cols]               *)
(*   col LIKE "<text>"       [kw, op |-> "LIKE", text, cols |-> <<col>>]   *)
(*   procedure = <text>      [kw, op |-> "EQ",   text, cols |-> <<1>>]     *)
(***************************************************************************)
\* get_query: D_list = ['DA', 'D1', ..., 'D25'], P_list = ['P1', ..., 'P15'];
\* a column is named by its position in a medical_headers row: DA, D1..D25
\* are columns 1..26 and P1..P15 are columns 27..41
q_D_list == [i \in 1..NumD |-> i]
q_P_list == [i \in 1..NumP |-> NumD + i]

\* '*' in code
has_star(code) == \E i \in 1..Len(code) : code[i] = "*"

\* code.replace('*', '%')
replace_star(code) == [i \in 1..Len(code) |-> IF code[i] = "*" THEN "%" ELSE code[i]]

Cond(kw, op, text, cols) == [kw |-> kw, op |-> op, text |-> text, cols |-> cols]

\* Query.create_query: the SELECT with the condition(s) of the first code
create_query(col_list, codes) ==
    LET code == codes[1] IN
    IF has_star(code)
    THEN [i \in 1..Len(col_list) |->
            Cond(IF i = 1 THEN "WHERE" ELSE "OR", "LIKE", replace_star(code), <<col_list[i]>>)]
    ELSE <<Cond("WHERE", "IN", code, col_list)>>

\* Query.fill_query: query with the OR conditions of every code of codes appended
RECURSIVE fill_query(_, _, _)
fill_query(col_list, codes, qry) ==
    IF codes = <<>> THEN qry
    ELSE LET code == Head(codes)
             more == IF has_star(code)
                     THEN [i \in 1..Len(col_list) |->
                             Cond("OR", "LIKE", replace_star(code), <<col_list[i]>>)]
                     ELSE <<Cond("OR", "IN", code, col_list)>>
         IN fill_query(col_list, Tail(codes), qry \o more)

\* a get_query whose third call passes self.P_codes[1:] as the other branches do
get_query_skip_first_P(Dc, Pc) ==
    IF Dc # <<>> /\ Pc # <<>>
    THEN fill_query(q_P_list, Tail(Pc), fill_query(q_D_list, Tail(Dc), create_query(q_D_list, Dc)))
    ELSE IF Dc # <<>>
    THEN fill_query(q_D_list, Tail(Dc), create_query(q_D_list, Dc))
    ELSE IF Pc # <<>>
    THEN fill_query(q_P_list, Tail(Pc), create_query(q_P_list, Pc))
    ELSE None

\* Query.get_query
get_query(Dc, Pc) ==
    IF Dc # <<>> /\ Pc # <<>>
    THEN fill_query(q_P_list, Pc, fill_query(q_D_list, Tail(Dc), create_query(q_D_list, Dc)))
    ELSE IF Dc # <<>>
    THEN fill_query(q_D_list, Tail(Dc), create_query(q_D_list, Dc))
    ELSE IF Pc # <<>>
    THEN fill_query(q_P_list, Tail(Pc), create_query(q_P_list, Pc))
    ELSE None

\* Query.get_CPT_query for a non-empty list (self.CPT_codes[0] raises
\* IndexError on an empty one)
get_CPT_query(codes) ==
    [i \in 1..Len(codes) |->
        Cond(IF i = 1 THEN "WHERE" ELSE "OR", "EQ", codes[i], <<1>>)]

\* ---- the record store: how SQLite evaluates the conditions ----
Null == <<"NULL">>

\* value LIKE pattern: % matches any run of characters, _ any one character
RECURSIVE like_match(_, _)
like_match(pat, val) ==
    IF pat = <<>> THEN val = <<>>
    ELSE IF Head(pat) = "%"
         THEN like_match(Tail(pat), val) \/ (val # <<>> /\ like_match(pat, Tail(val)))
    ELSE IF val = <<>> THEN FALSE
    ELSE (Head(pat) = "_" \/ Head(pat) = Head(val)) /\ like_match(Tail(pat), Tail(val))

\* one condition on one row, in SQL's three-valued logic: "T", "F" or "N" (NULL)
eval_cond(c, row) ==
    IF c.op = "LIKE"
    THEN IF row[c.cols[1]] = Null THEN "N"
         ELSE IF like_match(c.text, row[c.cols[1]]) THEN "T" ELSE "F"
    ELSE IF \E i \in 1..Len(c.cols) : row[c.cols[i]] # Null /\ row[c.cols[i]] = c.text THEN "T"
    ELSE IF \E i \in 1..Len(c.cols) : row[c.cols[i]] = Null THEN "N"
    ELSE "F"

\* WHERE c1 OR c2 OR ...: the row is selected when the disjunction is true
\* (true OR NULL is true; false OR NULL is NULL, which does not select)
selects(qry, row) == \E i \in 1..Len(qry) : eval_cond(qry[i], row) = "T"

\* pd.read_sql_query(query, con)
read_sql_query(qry, table) ==
    [loaded |-> TRUE, rows |-> SelectSeq(table, LAMBDA row : selects(qry, row))]

\* ---- inputs ----
Str458s == <<"4", "5", ".", "8", "*">>
Str458  == <<"4", "5", ".", "8">>
Str4580 == <<"4", "5", ".", "8", "0">>
Str4581 == <<"4", "5", ".", "8", "1">>
Str4589 == <<"4", "5", ".", "8", "9">>
Str457  == <<"4", "5", ".", "7">>
Str459  == <<"4", "5", ".", "9">>
Str45378 == <<"4", "5", "3", "7", "8">>
Str44150 == <<"4", "4", "1", "5", "0">>

MaxCodes == 2
MaxExecuted == 4
MaxCPT == 2
CodePool == {Str458s, Str458}
\* the CPT lists are the prefixes of this one
CPTSeq == <<Str45378, Str44150, Str45378, Str44150>>
CPTLists == {SubSeq(CPTSeq, 1, k) : k \in 0..(IF MaxCPT < Len(CPTSeq) THEN MaxCPT ELSE Len(CPTSeq))}
ColumnVals == {Str4580, Str4581, Str4589, Str457, Str459, Str458}

HeaderCols == Range(q_D_list) \cup Range(q_P_list)

NullRow == [col \in 1..(NumD + NumP) |-> Null]

\* header rows with at most one code column filled
HeaderRows ==
    {NullRow} \cup {[NullRow EXCEPT ![col] = v] : col \in HeaderCols, v \in ColumnVals}

\* the two tables of claims.db
medical_headers ==
    <<[NullRow EXCEPT ![1] = Str458],
      [NullRow EXCEPT ![NumD + NumP] = Str4581],
      [NullRow EXCEPT ![NumD] = Str4580],
      NullRow>>

\* rows of the one column procedure
medical_service_lines == << <<Str45378>>, <<Str44150>>, <<Null>> >>

\* Query.__init__
InitQuery ==
    /\ D_codes \in SeqsUpTo(CodePool, MaxCodes)
    /\ P_codes \in SeqsUpTo(CodePool, MaxCodes)
    /\ CPT_codes \in CPTLists
    /\ query = None /\ CPT_query = None
    /\ visits = NotLoaded /\ services = NotLoaded
    /\ q_err = "none" /\ q_executed = 0
    /\ q_op = "init" /\ q_ret = None
    /\ IdleCleanse /\ IdleFeat /\ IdleCodes

\* a call of get_query(): it returns the query and assigns no field
GetQuery ==
    /\ q_op' = "get_query"
    /\ q_ret' = get_query(D_codes, P_codes)
    /\ q_err' = "none"
    /\ UNCHANGED <<D_codes, P_codes, CPT_codes, query, CPT_query, visits, services, q_executed>>
    /\ UNCHANGED <<cleanseVars, featVars, codesVars>>

\* a call of get_CPT_query()
GetCPTQuery ==
    /\ q_op' = "get_CPT_query"
    /\ IF CPT_codes = <<>>
       THEN q_err' = "IndexError" /\ q_ret' = None
       ELSE q_err' = "none" /\ q_ret' = get_CPT_query(CPT_codes)
    /\ UNCHANGED <<D_codes, P_codes, CPT_codes, query, CPT_query, visits, services, q_executed>>
    /\ UNCHANGED <<cleanseVars, featVars, codesVars>>

\* a call of get_dataframes(): self.query is assigned first; get_CPT_query
\* raises IndexError on an empty CPT list; pd.read_sql_query raises on the
\* query None; otherwise both tables are read
GetDataframes ==
    /\ q_op' = "get_dataframes"
    /\ query' = get_query(D_codes, P_codes)
    /\ q_ret' = None
    /\ IF CPT_codes = <<>>
       THEN /\ q_err' = "IndexError"
            /\ UNCHANGED <<CPT_query, visits, services, q_executed>>
       ELSE /\ CPT_query' = get_CPT_query(CPT_codes)
            /\ IF query' = None
               THEN /\ q_err' = "DatabaseError"
                    /\ UNCHANGED <<visits, services, q_executed>>
               ELSE /\ q_err' = "none"
                    /\ visits' = read_sql_query(query', medical_headers)
                    /\ services' = read_sql_query(CPT_query', medical_service_lines)
                    /\ q_executed' = IF q_executed < MaxExecuted THEN q_executed + 2 ELSE q_executed
    /\ UNCHANGED <<D_codes, P_codes, CPT_codes>>
    /\ UNCHANGED <<cleanseVars, featVars, codesVars>>

NextQuery == GetQuery \/ GetCPTQuery \/ GetDataframes

SpecQuery == InitQuery /\ [][NextQuery]_vars

(***************************************************************************)
(* Codes.generate_CPT_codes (ExtractData.py): the prompt loop              *)
(***************************************************************************)
DigitChars == <<"0", "1", "2", "3", "4", "5", "6", "7", "8", "9">>

is_digit(ch) == \E d \in 1..10 : DigitChars[d] = ch

digit_val(ch) == (CHOOSE d \in 1..10 : DigitChars[d] = ch) - 1

\* str.lower() on the letters the entries use
lower_char(ch) ==
    CASE ch = "D" -> "d" [] ch = "O" -> "o" [] ch = "N" -> "n" [] ch = "E" -> "e"
      [] OTHER -> ch

lower(str) == [i \in 1..Len(str) |-> lower_char(str[i])]

\* int(s) for a non-empty string of digits
RECURSIVE int_of(_)
int_of(str) ==
    IF str = <<>> THEN 0
    ELSE 10 * int_of(SubSeq(str, 1, Len(str) - 1)) + digit_val(str[Len(str)])

\* str(i) for i >= 0
RECURSIVE str_of(_)
str_of(i) ==
    IF i < 10 THEN <<DigitChars[i + 1]>>
    ELSE Append(str_of(i \div 10), DigitChars[(i % 10) + 1])

\* code.split('-'): the pieces between the dashes
RECURSIVE split_dash(_)
split_dash(str) ==
    IF \A i \in 1..Len(str) : str[i] # "-" THEN <<str>>
    ELSE LET k == CHOOSE i \in 1..Len(str) :
                     str[i] = "-" /\ \A j \in 1..(i - 1) : str[j] # "-"
         IN <<SubSeq(str, 1, k - 1)>> \o split_dash(SubSeq(str, k + 1, Len(str)))

\* [str(i) for i in range(a, b)]  (b exclusive)
str_range(a, b) == [k \in 1..(IF b > a THEN b - a ELSE 0) |-> str_of(a + k - 1)]

\* the list 'default' installs
default_CPT_codes ==
    <<str_of(45378), str_of(45388)>> \o str_range(45380, 45386) \o
    <<str_of(44110), str_of(44146)>> \o str_range(44150, 44161) \o
    str_range(44204, 44209) \o str_range(44210, 44213)

StrDone    == <<"d", "o", "n", "e">>
StrDefault == <<"d", "e", "f", "a", "u", "l", "t">>

\* One iteration of the while loop on the entry code, from the list lst:
\* the new list, what was printed, and how the iteration ended
\* ("continue", "break", or the exception that leaves the loop).
loop_iteration(lst, code) ==
    LET is_default  == lower(code) = StrDefault
        use_default == is_default /\ lst = <<>>
        already     == is_default /\ lst # <<>>
        lst1        == IF use_default THEN default_CPT_codes ELSE lst
        code1       == IF use_default THEN StrDone ELSE code
        bad_char    == \E i \in 1..Len(code1) : ~(is_digit(code1[i]) \/ code1[i] = "-")
        printed     == (IF already THEN <<"ALREADY">> ELSE <<>>) \o
                       (IF bad_char THEN <<"INVALID">> ELSE <<>>)
        parts       == split_dash(code1)
    IN IF lower(code1) = StrDone
       THEN [list |-> lst1, printed |-> <<>>, end |-> "break"]
       ELSE IF already \/ bad_char
       THEN [list |-> lst1, printed |-> printed, end |-> "continue"]
       ELSE IF Len(parts) = 1
       THEN [list |-> Append(lst1, code1), printed |-> <<>>, end |-> "continue"]
       ELSE IF Len(parts) # 2 \/ parts[1] = <<>> \/ parts[2] = <<>>
       THEN [list |-> lst1, printed |-> <<>>, end |-> "ValueError"]
       ELSE [list |-> lst1 \o str_range(int_of(parts[1]), int_of(parts[2]) + 1),
             printed |-> <<>>, end |-> "continue"]

MaxEntries == 3

Str44150to44152 == <<"4", "4", "1", "5", "0", "-", "4", "4", "1", "5", "2">>
Str44152to44150 == <<"4", "4", "1", "5", "2", "-", "4", "4", "1", "5", "0">>

\* what the user may type
EntryPool ==
    {StrDone, <<"D", "o", "n", "e">>, StrDefault,
     Str44150to44152, Str44152to44150,
     <<"7", "-", "7">>, <<"0", "8", "-", "1", "0">>,
     Str44150, <<"4", "x">>, <<>>,
     <<"5", "-">>, <<"1", "-", "2", "-", "3">>}

InitCodes ==
    /\ code_list = <<>>
    /\ c_pc = "prompt"
    /\ c_printed = <<>>
    /\ c_entries = 0
    /\ c_code = <<>>
    /\ IdleCleanse /\ IdleFeat /\ IdleQuery

\* code = input() and the loop body run on it
Enter(code) ==
    /\ c_pc = "prompt"
    /\ c_entries < MaxEntries
    /\ LET it == loop_iteration(code_list, code)
       IN /\ code_list' = it.list
          /\ c_printed' = it.printed
          /\ c_pc' = CASE it.end = "continue" -> "prompt"
                       [] it.end = "break" -> "returned"
                       [] OTHER -> it.end
    /\ c_code' = code
    /\ c_entries' = c_entries + 1
    /\ UNCHANGED <<cleanseVars, featVars, queryVars>>

NextCodes == \E code \in EntryPool : Enter(code)

SpecCodes == InitCodes /\ [][NextCodes]_vars

(***************************************************************************)
(* Properties of Cleanse and Analyze                                       *)
(***************************************************************************)
\* the tables merge_duplicates was given: what make_new_ids made of data_full
MergeInput == make_new_ids(data_full)

GroupRows(tbl, key) == {i \in 1..Len(tbl) : tbl[i].new_encounter_key = key}

OrOver(tbl, S, col) == IF \E i \in S : tbl[i][col] = 1 THEN 1 ELSE 0

\* C1: after merge_duplicates every encounter id of the input has a single
\* retained row, and each of its four flags is the logical OR of that flag
\* over all input rows of the encounter, whatever the size of the group and
\* whether or not its rows are adjacent.
C1_FlagsAreOrOfGroup ==
    pc = "merged" =>
        LET in == MergeInput.data IN
        \A i \in 1..Len(in) :
            LET key == in[i].new_encounter_key
                kept == GroupRows(data, key)
            IN /\ Cardinality(kept) = 1
               /\ \A r \in kept :
                    /\ data[r].benign      = OrOver(in, GroupRows(in, key), "benign")
                    /\ data[r].malignant   = OrOver(in, GroupRows(in, key), "malignant")
                    /\ data[r].colonoscopy = OrOver(in, GroupRows(in, key), "colonoscopy")
                    /\ data[r].colectomy   = OrOver(in, GroupRows(in, key), "colectomy")

\* C7: the two assertions of merge_duplicates never fail, and after the
\* collapse the main table and the id-map each have as many rows as the
\* input has distinct encounter surrogate ids.
C7_CollapseCardinality ==
    /\ pc # "AssertionError"
    /\ pc = "merged" =>
         /\ Len(data) = nunique(MergeInput.data)
         /\ Len(ids) = nunique(MergeInput.ids)

\* several duplicate groups were collapsed
C7_Witness ==
    /\ pc = "merged"
    /\ Len(data) = 2
    /\ Len(data_full) = 4
    /\ \A i \in 1..Len(MergeInput.data) : duplicated(MergeInput.data, i)

FirstPos(tbl, col, i) == CHOOSE j \in 1..i :
    /\ tbl[j][col] = tbl[i][col]
    /\ \A k \in 1..(j - 1) : tbl[k][col] # tbl[i][col]

\* C6: in the ids table make_new_ids returns, for each of the four id
\* columns, surrogate and natural key correspond one to one, the surrogates
\* are exactly 0..n-1 for n distinct natural keys, and the k-th distinct
\* natural key in row order has surrogate k-1; the data table carries the
\* same surrogates.
C6_SurrogateBijection ==
    pc = "ids_made" =>
        /\ Len(ids) = Len(data_full) /\ Len(data) = Len(data_full)
        /\ \A c \in 1..4 :
            LET nat == id_cols[c]
                new == new_id_cols[c]
                n == Cardinality({data_full[i][nat] : i \in 1..Len(data_full)})
            IN /\ \A i \in 1..Len(ids) :
                    /\ ids[i][nat] = data_full[i][nat]
                    /\ data[i][new] = ids[i][new]
                    /\ ids[i][new] =
                         Cardinality({data_full[k][nat] : k \in 1..(FirstPos(data_full, nat, i) - 1)})
               /\ \A i, j \in 1..Len(ids) : (ids[i][new] = ids[j][new]) <=> (ids[i][nat] = ids[j][nat])
               /\ {ids[i][new] : i \in 1..Len(ids)} = 0..(n - 1)

\* a key is seen again after another key: a surrogate is reused
C6_Witness ==
    /\ pc = "ids_made"
    /\ Len(ids) = 3
    /\ ids[1].encounter_key = ids[3].encounter_key
    /\ ids[2].encounter_key # ids[1].encounter_key
    /\ ids[3].new_encounter_key = 0
    /\ ids[2].new_encounter_key = 1
    /\ ids[3].new_doctor_id = 1

BenignOnlyOf(d) == {i \in 1..Len(data) :
    data[i].benign = 1 /\ data[i].malignant = 0 /\ data[i].new_doctor_id = d}

\* C4: the report has exactly one row for each physician with at least one
\* benign-only encounter in the collapsed table and no other row; chances
\* is the number of the physician's benign-only encounters, mistakes the
\* number of those with colectomy = 1, the rate is mistakes/chances x 100,
\* and the natural id is the one the id map gives.
C4_ReportRows ==
    pc = "analyzed" =>
        /\ \A i \in 1..Len(data) :
              (data[i].benign = 1 /\ data[i].malignant = 0) =>
                 Cardinality({k \in 1..Len(mistakes) :
                                mistakes[k].new_doctor_id = data[i].new_doctor_id}) = 1
        /\ \A k \in 1..Len(mistakes) :
              LET r == mistakes[k]
                  enc == BenignOnlyOf(r.new_doctor_id)
              IN /\ enc # {}
                 /\ r.chances = Cardinality(enc)
                 /\ r.chances >= 1
                 /\ r.mistakes = Cardinality({i \in enc : data[i].colectomy = 1})
                 /\ 0 <= r.mistakes /\ r.mistakes <= r.chances
                 /\ r.pct_den > 0
                 /\ r.pct_num * r.chances = r.mistakes * 100 * r.pct_den
                 /\ \E i \in 1..Len(ids) :
                       ids[i].new_doctor_id = r.new_doctor_id /\ ids[i].doctor_id = r.doctor_id
                 /\ \A i \in 1..Len(ids) :
                       ids[i].new_doctor_id = r.new_doctor_id => ids[i].doctor_id = r.doctor_id

\* a physician without a benign-only encounter is left out, another has two
\* chances and one mistake
C4_Witness ==
    /\ pc = "analyzed"
    /\ Len(mistakes) = 1
    /\ mistakes[1].chances = 2 /\ mistakes[1].mistakes = 1
    /\ \E i \in 1..Len(data) : data[i].new_doctor_id # mistakes[1].new_doctor_id

\* C5: consecutive rows of the report are in ascending order of rate and,
\* at equal rates, in descending order of chances.
C5_ReportOrder ==
    pc = "analyzed" =>
        \A k \in 1..(Len(mistakes) - 1) :
            LET r == mistakes[k]
                s == mistakes[k + 1]
            IN /\ r.pct_num * s.pct_den <= s.pct_num * r.pct_den
               /\ (r.pct_num * s.pct_den = s.pct_num * r.pct_den) => r.chances >= s.chances

\* two physicians tie on the rate and the sort moved the one with more
\* chances, found later in the table, in front
C5_Witness ==
    /\ pc = "analyzed"
    /\ Len(mistakes) = 2
    /\ mistakes[1].pct_num * mistakes[2].pct_den = mistakes[2].pct_num * mistakes[1].pct_den
    /\ mistakes[1].chances > mistakes[2].chances
    /\ data[1].new_doctor_id = mistakes[2].new_doctor_id

(***************************************************************************)
(* Properties of feature_engineer                                          *)
(***************************************************************************)
DefaultColonoscopyCPT == {45378, 45388} \cup (45380..45385)

\* C2: colonoscopy = 1 exactly when some procedure-classification slot is
\* 45.23 or the CPT code is one of 45378, 45380..45385, 45388.
C2_ColonoscopyFlag ==
    fe_pc = "engineered" =>
        ((df.colonoscopy = 1) <=>
            \/ \E col \in P_list : df.P[col] = 4523
            \/ df.procedure \in DefaultColonoscopyCPT)

\* a value of hundredths rounded to tenths (half up)
RoundTenth(c) == (c + 5) \div 10

ClaimedColectomyCPT == {44110, 44146, 44210, 44211} \cup (44150..44160) \cup (44204..44208)

IsPrefix(pre, val) == Len(pre) <= Len(val) /\ SubSeq(val, 1, Len(pre)) = pre

\* an exact code matches by equality, a code with a trailing * by prefix
CodeMatches(code, val) ==
    /\ val # Null
    /\ IF code # <<>> /\ code[Len(code)] = "*"
       THEN IsPrefix(SubSeq(code, 1, Len(code) - 1), val)
       ELSE val = code

RowMatches(Dc, Pc, row) ==
    \/ \E k \in 1..Len(Dc), i \in 1..NumD : CodeMatches(Dc[k], row[q_D_list[i]])
    \/ \E k \in 1..Len(Pc), i \in 1..NumP : CodeMatches(Pc[k], row[q_P_list[i]])

\* C8: get_query returns None, without an error, exactly when both code
\* lists are empty; otherwise a header row satisfies the returned predicate
\* exactly when some diagnosis code matches one of the 26 diagnosis columns
\* or some procedure code matches one of the 15 procedure columns.
C8_QueryPredicate ==
    q_op = "get_query" =>
        /\ q_err = "none"
        /\ (q_ret = None) <=> (D_codes = <<>> /\ P_codes = <<>>)
        /\ q_ret # None =>
             \A row \in HeaderRows : selects(q_ret, row) <=> RowMatches(D_codes, P_codes, row)

\* both lists are non-empty, the first procedure code is the wildcard 45.8*
\* and the predicate selects a row that only that code matches, in P15
C8_Witness ==
    /\ q_op = "get_query"
    /\ D_codes = <<Str458, Str458>>
    /\ P_codes = <<Str458s, Str458>>
    /\ selects(q_ret, [NullRow EXCEPT ![NumD + NumP] = Str4589])
    /\ ~selects(q_ret, [NullRow EXCEPT ![NumD] = Str4589])
    /\ ~selects(q_ret, [NullRow EXCEPT ![NumD + 1] = Str459])

\* C9: a get_dataframes call on an empty CPT list fails, executes no query
\* against the record store and leaves query, CPT_query, visits and
\* services as they were before the call.
C9_FailedCallChangesNothing ==
    [][(q_op' = "get_dataframes" /\ CPT_codes = <<>>) =>
          /\ q_err' = "IndexError"
          /\ q_executed' = q_executed
          /\ query' = query /\ CPT_query' = CPT_query
          /\ visits' = visits /\ services' = services]_vars

(***************************************************************************)
(* Properties of Codes.generate_CPT_codes                                  *)
(***************************************************************************)
\* an entry of the form first-last, both non-empty digit strings
IsRangeEntry(e) ==
    /\ Len(split_dash(e)) = 2
    /\ \A k \in 1..2 : split_dash(e)[k] # <<>> /\ \A i \in 1..Len(split_dash(e)[k]) : is_digit(split_dash(e)[k][i])

RangeFirst(e) == int_of(split_dash(e)[1])
RangeLast(e) == int_of(split_dash(e)[2])

\* C10: an entry first-last with first <= last appends exactly the codes
\* first, first+1, ..., last; an entry with first > last is reported as
\* invalid, adds nothing to the list, and the loop goes on.
C10_RangeEntries ==
    [][(c_entries' = c_entries + 1 /\ IsRangeEntry(c_code')) =>
          IF RangeFirst(c_code') <= RangeLast(c_code')
          THEN /\ code_list' = code_list \o
                     [k \in 1..(RangeLast(c_code') - RangeFirst(c_code') + 1) |->
                         str_of(RangeFirst(c_code') + k - 1)]
               /\ c_pc' = "prompt"
          ELSE /\ \E k \in 1..Len(c_printed') : c_printed'[k] = "INVALID"
               /\ code_list' = code_list
               /\ c_pc' = "prompt"]_vars

(***************************************************************************)
(* The id-map after merge_duplicates                                       *)
(***************************************************************************)
\* the position of the last input row of the encounter key
LastPos(tbl, key) == CHOOSE i \in GroupRows(tbl, key) : \A j \in GroupRows(tbl, key) : j <= i

\* C11: after merge_duplicates the main table and the id-map hold the same
\* encounter surrogate ids, row by row; the row each keeps for an encounter
\* is the last input row of its group, so the claim amount and the
\* patient, doctor and hospital surrogate ids of the main-table row are
\* those of the group's last row and equal those of the id-map row.
C11_IdMapSynchronized ==
    pc = "merged" =>
        LET in == MergeInput IN
        /\ {data[i].new_encounter_key : i \in 1..Len(data)}
             = {in.data[i].new_encounter_key : i \in 1..Len(in.data)}
        /\ {ids[i].new_encounter_key : i \in 1..Len(ids)}
             = {data[i].new_encounter_key : i \in 1..Len(data)}
        /\ Len(ids) = Len(data)
        /\ \A i \in 1..Len(data) :
             LET key == data[i].new_encounter_key
                 last == LastPos(in.data, key)
             IN /\ ids[i].new_encounter_key = key
                /\ ids[i] = in.ids[last]
                /\ data[i].total_claim = in.data[last].total_claim
                /\ data[i].new_patient_id = in.data[last].new_patient_id
                /\ data[i].new_doctor_id = in.data[last].new_doctor_id
                /\ data[i].new_hospital_id = in.data[last].new_hospital_id
                /\ data[i].new_patient_id = ids[i].new_patient_id
                /\ data[i].new_doctor_id = ids[i].new_doctor_id
                /\ data[i].new_hospital_id = ids[i].new_hospital_id

\* two interleaved groups whose first and last rows differ in claim amount
\* and in patient, doctor and hospital; the kept rows carry the last rows'
C11_Witness ==
    /\ pc = "merged"
    /\ Len(data_full) = 4
    /\ data_full[1].encounter_key = data_full[3].encounter_key
    /\ data_full[2].encounter_key = data_full[4].encounter_key
    /\ data_full[1].encounter_key # data_full[2].encounter_key
    /\ data_full[1].doctor_id # data_full[3].doctor_id
    /\ data_full[2].total_claim # data_full[4].total_claim
    /\ Len(data) = 2 /\ Len(ids) = 2
    /\ ids[1].doctor_id = data_full[3].doctor_id
    /\ data[2].total_claim = data_full[4].total_claim

====
